---- MODULE Spec2Model ----
(***************************************************************************)
(* A model of the TheAnalyticsAPI client (index.js): the in-memory queue,  *)
(* its flush triggers (first enqueue, size threshold, one-shot timer,      *)
(* explicit flush), the request issued per batch with the retry layer      *)
(* beneath it, and the completion callbacks.                               *)
(*                                                                         *)
(* JavaScript runs every handler to completion, so each handler (a track   *)
(* or flush call, a timer firing, a setImmediate callback, the settling of *)
(* a request's promise) is one action.  done() touches only the locals of  *)
(* its flush (callbacks, callback, data), so a track or flush call made    *)
(* from inside a callback commutes with the rest of done() and is covered  *)
(* by the same call made right after the action.                           *)
(***************************************************************************)
EXTENDS Integers, Sequences, FiniteSets, TLC

\* ------------------------------------------------------------------ bounds
MaxCalls == 3           \* track and flush calls per behaviour
MaxTime == 1            \* the clock stops here
MaxFaults == 2          \* failed transport attempts, raising callbacks and
                        \* invalid events per behaviour
ScenarioTracks == 4     \* track calls of the flushAt = 2 scenario
ScenarioFlushes == 1    \* flush calls of the flushAt = 2 scenario
MaxFilledCalls == 3     \* track and flush calls on a client whose queue starts filled

\* ------------------------------------------------------- program constants
DefaultFlushAt == 20
DefaultFlushInterval == 10000
DefaultRetryCount == 3

VARIABLES
    options,      \* the constructor's options argument
    enable,       \* this.enable
    flushAt,      \* this.flushAt
    flushInterval,\* this.flushInterval
    retries,      \* the retries handed to axiosRetry
    queue,        \* this.queue: entries {message, callback}
    flushed,      \* this.flushed
    timer,        \* this.timer: a timeout handle, or NoTimer
    timeouts,     \* the event loop's pending timeouts {id, deadline}
    nTimers,      \* setTimeout calls so far (the next handle is nTimers + 1)
    immediates,   \* the event loop's setImmediate queue (callbacks)
    requests,     \* every request issued, in issue order, with its state
    cbCalls,      \* per callback, the arguments of each of its invocations
    now,          \* the clock
    tracked,      \* the message of each track call so far, in call order
    nFlushes,     \* explicit flush calls so far
    nFailures,    \* failed transport attempts so far
    nThrows,      \* callback invocations that raised so far
    rejected      \* the track calls that raised the validation error

vars == <<options, enable, flushAt, flushInterval, retries, queue, flushed,
          timer, timeouts, nTimers, immediates, requests, cbCalls, now,
          tracked, nFlushes, nFailures, nThrows, rejected>>

nTracks == Len(tracked)

\* ------------------------------------------------------------------ values
NoTimer == 0
Noop == <<"noop", 0>>
TrackCb(n) == <<"track", n>>
FlushCb(n) == <<"flush", n>>
Callbacks == {"track", "flush"} \X (1..MaxCalls)

\* err as a callback receives it: undefined, or an error object
NoError == [kind |-> "undefined", message |-> "", code |-> ""]
NoData == <<>>

\* what the transport rejects with: an error with a response (the collector
\* answered with an error status) or without one (code set by the socket)
NoResponse == [status |-> 0, statusText |-> ""]
Statuses == {404, 500}
StatusText(s) ==
    CASE s = 404 -> "Not Found"
      [] s = 429 -> "Too Many Requests"
      [] s = 500 -> "Server Error"
      [] OTHER -> "Error"
TransportErrors ==
    { [code |-> "", message |-> "Request failed with status code",
       response |-> [status |-> s, statusText |-> StatusText(s)]] : s \in Statuses }
    \cup { [code |-> c, message |-> "socket failure", response |-> NoResponse]
           : c \in {"ECONNRESET"} }

NoTransportError == [code |-> "", message |-> "", response |-> NoResponse]

\* ------------------------------------------------------------- constructor
\* The options a client is constructed with: flushAt left out, below its
\* floor, or 2; flushInterval falsy, or 1; retryCount 1, so that the retries
\* of a request run out within MaxFaults.
FlushAtOptions ==
    { [given |-> FALSE, value |-> 0] }
    \cup { [given |-> TRUE, value |-> n] : n \in {0, 2} }
Options ==
    [flushAt : FlushAtOptions, flushInterval : {0, 1},
     enable : BOOLEAN, retryCount : {1}]

\* (variant: the floor of 1 is missing)
FlushAtOfUnfloored(opt) == IF ~opt.given THEN DefaultFlushAt ELSE opt.value

\* Math.max(options.flushAt, 1) || 20: NaN (flushAt undefined) is falsy
FlushAtOf(opt) ==
    IF ~opt.given THEN DefaultFlushAt
    ELSE IF opt.value > 1 THEN opt.value ELSE 1
\* options.flushInterval || 10000
FlushIntervalOf(v) == IF v # 0 THEN v ELSE DefaultFlushInterval
\* options.retryCount || 3
RetriesOf(v) == IF v # 0 THEN v ELSE DefaultRetryCount
\* (variant: the option is not read)
EnableOfIgnored(v) == TRUE

\* (variant: the flag starts set)
InitialFlushedSet == TRUE

\* typeof options.enable === 'boolean' ? options.enable : true
EnableOf(v) == v
InitialFlushed == FALSE

Init ==
    /\ options \in Options
    /\ enable = EnableOf(options.enable)
    /\ flushAt = FlushAtOf(options.flushAt)
    /\ flushInterval = FlushIntervalOf(options.flushInterval)
    /\ retries = RetriesOf(options.retryCount)
    /\ queue = <<>>
    /\ flushed = InitialFlushed
    /\ timer = NoTimer
    /\ timeouts = {}
    /\ nTimers = 0
    /\ immediates = <<>>
    /\ requests = <<>>
    /\ cbCalls = [cb \in Callbacks |-> <<>>]
    /\ now = 0
    /\ tracked = <<>>
    /\ nFlushes = 0
    /\ nFailures = 0
    /\ nThrows = 0
    /\ rejected = {}

\* ------------------------------------------------ the client as one value
\* The fields and event-loop queues a handler reads and writes, so that the
\* calls a handler makes (enqueue -> flush) compose as functions.
Self ==
    [queue |-> queue, flushed |-> flushed, timer |-> timer,
     timeouts |-> timeouts, nTimers |-> nTimers, immediates |-> immediates,
     requests |-> requests]

Commit(c) ==
    /\ queue' = c.queue
    /\ flushed' = c.flushed
    /\ timer' = c.timer
    /\ timeouts' = c.timeouts
    /\ nTimers' = c.nTimers
    /\ immediates' = c.immediates
    /\ requests' = c.requests

Config == <<options, enable, flushAt, flushInterval, retries>>

\* ------------------------------------------------------------ track input
\* A JavaScript value of a message field: its type and its text (a string's
\* characters, a number's decimal form, an object's JSON text).
Undefined == [t |-> "undefined", v |-> ""]
Str(s) == [t |-> "string", v |-> s]
Num(s) == [t |-> "number", v |-> s]
Obj(s) == [t |-> "object", v |-> s]

\* ToBoolean: undefined, "" and 0 are falsy
Truthy(x) ==
    CASE x.t = "undefined" -> FALSE
      [] x.t = "string" -> x.v # ""
      [] x.t = "number" -> x.v # "0"
      [] OTHER -> TRUE

\* lodash.isstring
IsString(x) == x.t = "string"

\* JSON.stringify of a value: a string in quotes, a number or an object as
\* its JSON text
JsonStringify(x) ==
    IF x.t = "string" THEN Str("\"" \o x.v \o "\"") ELSE Str(x.v)

\* A caller's event.  `event` is its event name; `valid` is the verdict of
\* the external validator on its shape; messageId, userId and anonymousId
\* are as the caller passed them (Undefined when left out).
Messages(n) ==
    [event : {n}, valid : BOOLEAN, messageId : {Undefined},
     userId : {Str("u")}, anonymousId : {Undefined}]

\* (variant: the catch swallows the validation error)
ValidateSwallows(message) == TRUE

\* _validate: looselyValidate throws, and the catch rethrows
Validate(message) == message.valid

\* md5(JSON.stringify(message)): a digest of the message's content as it is
\* before the id is set
Md5(message) ==
    <<message.event, message.type, message.timestamp, message.messageId,
      message.userId, message.anonymousId>>

\* uuid(): a value no other call of the session returns
Uuid == nTracks + 1

\* (variant: the id is the content hash alone)
HashOnlyMessageId(message, uuid) ==
    [t |-> "string", v |-> "node", md5 |-> Md5(message), uuid |-> 0]

\* `node-${md5(JSON.stringify(message))}-${uuid()}`
GeneratedMessageId(message, uuid) ==
    [t |-> "string", v |-> "node", md5 |-> Md5(message), uuid |-> uuid]

\* if (!message.messageId) message.messageId = ...
WithMessageId(message) ==
    IF ~Truthy(message.messageId)
    THEN [message EXCEPT !.messageId = GeneratedMessageId(message, Uuid)]
    ELSE message

\* if (message.anonymousId && !isString(message.anonymousId)) ...
\* if (message.userId && !isString(message.userId)) ...
Coerced(x) == IF Truthy(x) /\ ~IsString(x) THEN JsonStringify(x) ELSE x

\* enqueue's enrichment of a message that carries no timestamp
Enrich(type, message) ==
    LET m == [event |-> message.event, type |-> type, timestamp |-> now,
              messageId |-> message.messageId, userId |-> message.userId,
              anonymousId |-> message.anonymousId]
    IN  [WithMessageId(m) EXCEPT !.anonymousId = Coerced(@),
                                 !.userId = Coerced(@)]

\* ------------------------------------------------------------------- flush
Min(a, b) == IF a < b THEN a ELSE b

\* (variant: unshift in place of push)
PushFront(q, entry) == <<entry>> \o q

\* this.queue.push(entry)
Push(q, entry) == Append(q, entry)

\* (variant: slice in place of splice, the queue keeps what was taken)
RemainingAll(q, n) == q

\* (variant: splice(0), the whole queue is taken)
SplicedAll(q, n) == q

\* this.queue.splice(0, n): what it returns, and what it leaves in the queue
Spliced(q, n) == SubSeq(q, 1, Min(n, Len(q)))
Remaining(q, n) == SubSeq(q, Min(n, Len(q)) + 1, Len(q))

\* (variant: the timeout is cleared and the handle kept)
ClearTimerKeepsHandle(c) ==
    [c EXCEPT !.timeouts = {h \in @ : h.id # c.timer}]

\* if (this.timer) { clearTimeout(this.timer); this.timer = null }
ClearTimer(c) ==
    IF c.timer # NoTimer
    THEN [c EXCEPT !.timeouts = {h \in @ : h.id # c.timer}, !.timer = NoTimer]
    ELSE c

\* setImmediate(callback)
SetImmediate(c, callback) == [c EXCEPT !.immediates = Append(@, callback)]

\* (variant: no early return on an empty queue)
QueueNeverEmpty(c) == FALSE

\* if (!this.queue.length) return setImmediate(callback)
QueueIsEmpty(c) == Len(c.queue) = 0

\* axios(req): the request is issued, its promise pending
IssueRequest(c, items, callback) ==
    [c EXCEPT !.requests = Append(@,
        [batch |-> [i \in 1..Len(items) |-> items[i].message],
         callbacks |-> [i \in 1..Len(items) |-> items[i].callback],
         callback |-> callback,
         retryCount |-> 0,
         state |-> "pending",
         error |-> NoTransportError])]

Flush(c, callback) ==
    IF ~enable THEN SetImmediate(c, callback)
    ELSE LET c1 == ClearTimer(c) IN
         IF QueueIsEmpty(c1) THEN SetImmediate(c1, callback)
         ELSE LET items == Spliced(c1.queue, flushAt)
                  c2 == [c1 EXCEPT !.queue = Remaining(c1.queue, flushAt)]
              IN  IssueRequest(c2, items, callback)

\* ----------------------------------------------------------------- enqueue
\* (variant: the first-enqueue trigger is missing)
FirstEnqueueSkipped(c) == FALSE

\* if (!this.flushed)
FirstEnqueue(c) == ~c.flushed

\* (variant: > in place of >=)
ReachedFlushAtStrict(c) == Len(c.queue) > flushAt

\* if (this.queue.length >= this.flushAt)
ReachedFlushAt(c) == Len(c.queue) >= flushAt

\* (variant: the pending timer is not looked at)
ShouldArmTimerAlways(c) == flushInterval # 0

\* (variant: the test of the pending timer is inverted)
ShouldArmTimerInverted(c) == flushInterval # 0 /\ c.timer # NoTimer

\* if (this.flushInterval && !this.timer)
ShouldArmTimer(c) == flushInterval # 0 /\ c.timer = NoTimer

\* setTimeout's delay
TimerDeadline(t) == t + flushInterval

\* this.timer = setTimeout(this.flush.bind(this), this.flushInterval)
ArmTimer(c) ==
    [c EXCEPT !.nTimers = @ + 1,
              !.timer = c.nTimers + 1,
              !.timeouts = @ \cup {[id |-> c.nTimers + 1,
                                    deadline |-> TimerDeadline(now)]}]

\* (variant: both triggers are decided on the queue as pushed, and the
\* first-enqueue branch does not return)
EnqueueBothTriggers(c, type, message, callback) ==
    IF ~enable THEN SetImmediate(c, callback)
    ELSE LET c1 == [c EXCEPT !.queue =
                        Push(@, [message |-> Enrich(type, message),
                                 callback |-> callback])]
             c2 == IF FirstEnqueue(c1)
                   THEN Flush([c1 EXCEPT !.flushed = TRUE], Noop) ELSE c1
             c3 == IF ReachedFlushAt(c1) THEN Flush(c2, Noop) ELSE c2
         IN  IF ShouldArmTimer(c3) THEN ArmTimer(c3) ELSE c3

Enqueue(c, type, message, callback) ==
    IF ~enable THEN SetImmediate(c, callback)
    ELSE LET c1 == [c EXCEPT !.queue =
                        Push(@, [message |-> Enrich(type, message),
                                 callback |-> callback])]
         IN  IF FirstEnqueue(c1)
             THEN Flush([c1 EXCEPT !.flushed = TRUE], Noop)
             ELSE LET c2 == IF ReachedFlushAt(c1) THEN Flush(c1, Noop) ELSE c1
                  IN  IF ShouldArmTimer(c2) THEN ArmTimer(c2) ELSE c2

\* ----------------------------------------------------------------- actions
\* track(message, callback): the validation error propagates to the caller
Invalid(msgs) == {n \in 1..Len(msgs) : ~msgs[n].valid}

\* what went wrong so far: failed attempts, raising callbacks, invalid events
Faults == nFailures + nThrows + Cardinality(Invalid(tracked))

\* track(message, callback)
TrackCall(message, callback) ==
    /\ tracked' = Append(tracked, message)
    /\ IF Validate(message)
       THEN /\ Commit(Enqueue(Self, "track", message, callback))
            /\ UNCHANGED rejected
       ELSE /\ rejected' = rejected \cup {nTracks + 1}
            /\ UNCHANGED <<queue, flushed, timer, timeouts, nTimers,
                           immediates, requests>>
    /\ UNCHANGED <<Config, cbCalls, now, nFlushes, nFailures, nThrows>>

\* The application's n-th track call passes its n-th callback.
Track(message) ==
    /\ nTracks + nFlushes < MaxCalls
    /\ message.valid \/ Faults < MaxFaults
    /\ TrackCall(message, TrackCb(nTracks + 1))

\* flush(callback), called by the application
FlushCalled(callback) ==
    /\ nFlushes' = nFlushes + 1
    /\ Commit(Flush(Self, callback))
    /\ UNCHANGED <<Config, cbCalls, now, tracked, nFailures, nThrows, rejected>>

\* The application's n-th flush call passes its n-th callback.
FlushCall ==
    /\ nTracks + nFlushes < MaxCalls
    /\ FlushCalled(FlushCb(nFlushes + 1))

\* The timeout set by enqueue expires: the event loop drops it and calls
\* this.flush.bind(this) with no argument.
TimerFires(h) ==
    /\ h \in timeouts
    /\ h.deadline <= now
    /\ Commit(Flush([Self EXCEPT !.timeouts = @ \ {h}], Noop))
    /\ UNCHANGED <<Config, cbCalls, now, tracked, nFlushes, nFailures, nThrows,
                   rejected>>

\* Time passes.  A timeout that is due fires before the clock moves on.
Tick ==
    /\ now < MaxTime
    /\ \A h \in timeouts : h.deadline > now
    /\ now' = now + 1
    /\ UNCHANGED <<Config, queue, flushed, timer, timeouts, nTimers, immediates,
                   requests, cbCalls, tracked, nFlushes, nFailures, nThrows,
                   rejected>>

\* The event loop runs the oldest setImmediate callback, with no argument.
RunImmediate ==
    /\ immediates # <<>>
    /\ immediates' = Tail(immediates)
    /\ cbCalls' = IF Head(immediates) = Noop THEN cbCalls
                  ELSE [cbCalls EXCEPT ![Head(immediates)] =
                            Append(@, [err |-> NoError, data |-> NoData])]
    /\ UNCHANGED <<Config, queue, flushed, timer, timeouts, nTimers, requests,
                   now, tracked, nFlushes, nFailures, nThrows, rejected>>


\* --------------------------------------------------------------- transport
\* the codes the retry layer refuses to retry (is-retry-allowed's deny list:
\* name resolution, unreachable network, certificate failures)
DeniedCodes == {"ENOTFOUND", "ENETUNREACH"}

\* axiosRetry.isNetworkError: no response, a code, not a timed-out or aborted
\* request, and a code the retry layer allows
IsNetworkError(error) ==
    /\ error.response = NoResponse
    /\ error.code # ""
    /\ error.code # "ECONNABORTED"
    /\ error.code \notin DeniedCodes

\* (variant: the rate-limit branch is missing)
IsErrorRetryableNo429(error) ==
    IF IsNetworkError(error) THEN TRUE
    ELSE IF error.response = NoResponse THEN FALSE
    ELSE error.response.status >= 500 /\ error.response.status <= 599

\* _isErrorRetryable, the retryCondition handed to axiosRetry
IsErrorRetryable(error) ==
    IF IsNetworkError(error) THEN TRUE
    ELSE IF error.response = NoResponse THEN FALSE
    ELSE IF error.response.status >= 500 /\ error.response.status <= 599 THEN TRUE
    ELSE IF error.response.status = 429 THEN TRUE
    ELSE FALSE

\* axios-retry re-issues the request while retryCount < retries and the
\* retryCondition holds
WillRetry(r, error) == r.retryCount < retries /\ IsErrorRetryable(error)

\* the catch handler's argument to done: new Error(err.response.statusText)
\* when the failure carries a response, else err itself
DeliveredError(err) ==
    IF err.response # NoResponse
    THEN [kind |-> "Error", message |-> err.response.statusText, code |-> ""]
    ELSE [kind |-> "AxiosError", message |-> err.message, code |-> err.code]

\* what a raising callback raises
Thrown == [kind |-> "Thrown", message |-> "callback raised", code |-> ""]

\* done's callbacks in the order it invokes them: the entries', then flush's
DoneOrder(r) == r.callbacks \o <<r.callback>>

\* Which callback of done's raises first: 0 for none, else its place in
\* DoneOrder (noop never raises).
ThrowPlaces(r) ==
    {0} \cup {i \in 1..Len(DoneOrder(r)) : DoneOrder(r)[i] # Noop}

\* done(err): callbacks.forEach(callback => callback(err)); callback(err, data)
\* with the callback at place p (if any) raising, which ends done there.
Done(calls, r, err, p) ==
    LET order == DoneOrder(r)
        last == IF p = 0 THEN Len(order) ELSE p
        ArgsAt(i) == [err |-> err,
                      data |-> IF i = Len(order) THEN r.batch ELSE NoData]
        Places(cb) == {i \in 1..last : order[i] = cb}
    IN  [cb \in Callbacks |->
            IF Places(cb) = {} THEN calls[cb]
            ELSE Append(calls[cb], ArgsAt(CHOOSE i \in Places(cb) : TRUE))]

\* .then(() => done()).catch(err => ...) on a fulfilled request: when done
\* raises at place p, the catch handler receives what was raised and calls
\* done again, where the callback at place q (if any) raises.
OnFulfilled(calls, r, p, q) ==
    IF p = 0 THEN Done(calls, r, NoError, 0)
    ELSE Done(Done(calls, r, NoError, p), r, Thrown, q)

\* .catch(err => ...) on a rejected request
OnRejected(calls, r, err, q) == Done(calls, r, DeliveredError(err), q)

Raises(p) == IF p = 0 THEN 0 ELSE 1

\* the requests whose promise is pending
Pending == {i \in 1..Len(requests) : requests[i].state = "pending"}

\* The collector answers 2xx: the request's promise is fulfilled.
RequestSucceeds(i, p, q) ==
    /\ i \in Pending
    /\ p \in ThrowPlaces(requests[i])
    /\ q \in ThrowPlaces(requests[i])
    /\ p = 0 => q = 0
    /\ Faults + Raises(p) + Raises(q) <= MaxFaults
    /\ nThrows' = nThrows + Raises(p) + Raises(q)
    /\ requests' = [requests EXCEPT ![i].state = "fulfilled"]
    /\ cbCalls' = OnFulfilled(cbCalls, requests[i], p, q)
    /\ UNCHANGED <<Config, queue, flushed, timer, timeouts, nTimers, immediates,
                   now, tracked, nFlushes, nFailures, rejected>>

\* An attempt fails with err: axios-retry retries it, or the request's
\* promise is rejected with err.  The retry layer keeps the count of a
\* retried request; `noted` is what a retried request's record shows of the
\* failure.
AttemptFails(i, err, q, noted) ==
    /\ i \in Pending
    /\ Faults + 1 + Raises(q) <= MaxFaults
    /\ nFailures' = nFailures + 1
    /\ q \in ThrowPlaces(requests[i])
    /\ nThrows' = nThrows + Raises(q)
    /\ IF WillRetry(requests[i], err)
       THEN /\ q = 0
            /\ requests' = [requests EXCEPT ![i].retryCount = @ + 1,
                                            ![i].error = noted]
            /\ UNCHANGED cbCalls
       ELSE /\ requests' = [requests EXCEPT ![i].state = "rejected",
                                            ![i].error = err]
            /\ cbCalls' = OnRejected(cbCalls, requests[i], err, q)
    /\ UNCHANGED <<Config, queue, flushed, timer, timeouts, nTimers, immediates,
                   now, tracked, nFlushes, rejected>>

RequestFails(i, err, q) == AttemptFails(i, err, q, NoTransportError)

Next ==
    \/ \E message \in Messages(nTracks + 1) : Track(message)
    \/ FlushCall
    \/ \E h \in timeouts : TimerFires(h)
    \/ Tick
    \/ RunImmediate
    \/ \E i \in Pending : \E p, q \in ThrowPlaces(requests[i]) :
           RequestSucceeds(i, p, q)
    \/ \E i \in Pending : \E err \in TransportErrors, q \in ThrowPlaces(requests[i]) :
           RequestFails(i, err, q)

Spec == Init /\ [][Next]_vars

\* --------------------------------------------- a session of identified events
\* One enabled client with flushAt 2 and flushInterval 1.
PlainOptions ==
    [flushAt |-> [given |-> TRUE, value |-> 2], flushInterval |-> 1,
     enable |-> TRUE, retryCount |-> 1]

\* the ids of the records of the requests that have settled: what the
\* caller has seen in a flush callback's batch
SettledIds ==
    UNION { {requests[i].batch[k].messageId : k \in 1..Len(requests[i].batch)}
            : i \in {j \in 1..Len(requests) : requests[j].state # "pending"} }

\* The caller leaves messageId out, passes an empty one, passes one of its
\* own, or passes again the id of a record whose request has settled.
IdMessages ==
    [event : {1}, valid : {TRUE},
     messageId : {Undefined, Str(""), Str("m1")} \cup SettledIds,
     userId : {Str("u")}, anonymousId : {Undefined}]

\* the collector answers 404
NotFound ==
    [code |-> "", message |-> "Request failed with status code",
     response |-> [status |-> 404, statusText |-> StatusText(404)]]

InitIds == Init /\ options = PlainOptions

\* track calls, the timer, and requests settling (fulfilled, or rejected with
\* 404) with no callback raising
NextIds ==
    \/ \E message \in IdMessages : Track(message)
    \/ \E h \in timeouts : TimerFires(h)
    \/ Tick
    \/ \E i \in Pending : RequestSucceeds(i, 0, 0)
    \/ \E i \in Pending : RequestFails(i, NotFound, 0)

SpecIds == InitIds /\ [][NextIds]_vars

\* -------------------------------------- a session of events with typed ids
\* The caller passes userId and anonymousId as strings, as numbers (0 among
\* them) or as an object, or leaves one out; one of the two is truthy, as
\* the events the validator lets through have an identity.
IdentityMessages ==
    {m \in [event : {1}, valid : {TRUE}, messageId : {Undefined},
            userId : {Undefined, Str("u"), Num("7"), Num("0")},
            anonymousId : {Undefined, Str("a"), Num("0"), Obj("{\"id\":7}")}] :
        Truthy(m.userId) \/ Truthy(m.anonymousId)}

NextIdentity ==
    \/ \E message \in IdentityMessages : Track(message)
    \/ \E h \in timeouts : TimerFires(h)
    \/ Tick
    \/ \E i \in Pending : RequestSucceeds(i, 0, 0)
    \/ \E i \in Pending : RequestFails(i, NotFound, 0)

SpecIdentity == InitIds /\ [][NextIdentity]_vars

\* ------------------------------------------------- the flushAt = 2 scenario
\* A fresh enabled client constructed with flushAt 2 takes up to
\* ScenarioTracks track calls, each with a valid event and no callback, and
\* up to ScenarioFlushes flush calls.
InitScenario ==
    /\ Init
    /\ options.enable
    /\ options.flushAt = [given |-> TRUE, value |-> 2]

ScenarioTrack ==
    /\ nTracks < ScenarioTracks
    /\ \E message \in Messages(nTracks + 1) :
           message.valid /\ TrackCall(message, Noop)

ScenarioFlush ==
    /\ nFlushes < ScenarioFlushes
    /\ FlushCalled(FlushCb(nFlushes + 1))

NextScenario ==
    \/ ScenarioTrack
    \/ ScenarioFlush
    \/ \E h \in timeouts : TimerFires(h)
    \/ Tick
    \/ RunImmediate
    \/ \E i \in Pending : RequestSucceeds(i, 0, 0)
    \/ \E i \in Pending : RequestFails(i, NotFound, 0)

SpecScenario == InitScenario /\ [][NextScenario]_vars

\* ---------------------------------------------- a session of failing requests
\* What an attempt can fail with: a response just outside and inside the
\* classifier's ranges, or no response: with no code, a reset connection, a
\* timed-out request (axios sets ECONNABORTED), a failed name resolution.
ClassifierStatuses == {404, 429, 499, 500, 599, 600}
ClassifierCodes == {"", "ECONNRESET", "ECONNABORTED", "ENOTFOUND"}
ClassifierErrors ==
    { [code |-> "", message |-> "Request failed with status code",
       response |-> [status |-> s, statusText |-> StatusText(s)]]
      : s \in ClassifierStatuses }
    \cup { [code |-> c, message |-> "no response", response |-> NoResponse]
           : c \in ClassifierCodes }

\* a failed attempt whose error stays visible in the request's record
ObservedFailure(i, err) == AttemptFails(i, err, 0, err)

NextRetry ==
    \/ \E message \in Messages(nTracks + 1) : message.valid /\ Track(message)
    \/ FlushCall
    \/ \E h \in timeouts : TimerFires(h)
    \/ Tick
    \/ RunImmediate
    \/ \E i \in Pending : RequestSucceeds(i, 0, 0)
    \/ \E i \in Pending : \E err \in ClassifierErrors : ObservedFailure(i, err)

SpecRetry == InitIds /\ [][NextRetry]_vars

\* ------------------------------------------------------- a filled queue
\* flush on a queue of any length.  The enqueue triggers never let the queue
\* of a client grow beyond flushAt, so the queue (a public field of the
\* client) starts filled with up to MaxCalls entries, as if their track
\* calls had been made with no trigger acting.
FilledQueue(n) ==
    [i \in 1..n |->
        [message |-> Enrich("track", [event |-> i, valid |-> TRUE,
                                      messageId |-> Str("m"), userId |-> Str("u"),
                                      anonymousId |-> Undefined]),
         callback |-> TrackCb(i)]]

InitFilled ==
    /\ options \in Options
    /\ options.enable
    /\ options.flushInterval = 1
    /\ enable = EnableOf(options.enable)
    /\ flushAt = FlushAtOf(options.flushAt)
    /\ flushInterval = FlushIntervalOf(options.flushInterval)
    /\ retries = RetriesOf(options.retryCount)
    /\ flushed = InitialFlushed
    /\ timer = NoTimer
    /\ timeouts = {}
    /\ nTimers = 0
    /\ immediates = <<>>
    /\ requests = <<>>
    /\ cbCalls = [cb \in Callbacks |-> <<>>]
    /\ now = 0
    /\ nFlushes = 0
    /\ nFailures = 0
    /\ nThrows = 0
    /\ rejected = {}
    /\ \E n \in 0..MaxCalls :
           /\ tracked = [i \in 1..n |->
                            [event |-> i, valid |-> TRUE, messageId |-> Str("m"),
                             userId |-> Str("u"), anonymousId |-> Undefined]]
           /\ queue = FilledQueue(n)

\* the entries the queue started with (their id is "m"), and the calls made
\* since
Filled == Cardinality({n \in 1..nTracks : tracked[n].messageId = Str("m")})
FilledCalls == nTracks - Filled + nFlushes

FilledTrack ==
    /\ nTracks < MaxCalls
    /\ FilledCalls < MaxFilledCalls
    /\ \E message \in Messages(nTracks + 1) :
           message.valid /\ TrackCall(message, TrackCb(nTracks + 1))

FilledFlush ==
    /\ FilledCalls < MaxFilledCalls
    /\ FlushCalled(FlushCb(nFlushes + 1))

NextFilled ==
    \/ FilledTrack
    \/ FilledFlush
    \/ \E h \in timeouts : TimerFires(h)
    \/ Tick
    \/ RunImmediate
    \/ \E i \in Pending : RequestSucceeds(i, 0, 0)
    \/ \E i \in Pending : RequestFails(i, NotFound, 0)

SpecFilled == InitFilled /\ [][NextFilled]_vars

\* ------------------------------------------- a session with no flush call
\* An enabled client takes track calls only.  Time does not stop while a
\* timeout is pending: the clock moves on to the deadline of the earliest
\* one (also beyond MaxTime), and a timeout that is due fires.
InitLive == Init /\ options.enable

Elapse ==
    /\ timeouts # {}
    /\ \A h \in timeouts : h.deadline > now
    /\ \E h \in timeouts :
           /\ \A g \in timeouts : h.deadline <= g.deadline
           /\ now' = h.deadline
    /\ UNCHANGED <<Config, queue, flushed, timer, timeouts, nTimers, immediates,
                   requests, cbCalls, tracked, nFlushes, nFailures, nThrows,
                   rejected>>

NextLive ==
    \/ \E message \in Messages(nTracks + 1) : message.valid /\ Track(message)
    \/ \E h \in timeouts : TimerFires(h)
    \/ Tick
    \/ Elapse
    \/ RunImmediate
    \/ \E i \in Pending : RequestSucceeds(i, 0, 0)
    \/ \E i \in Pending : RequestFails(i, NotFound, 0)

SpecLive ==
    /\ InitLive
    /\ [][NextLive]_vars
    /\ WF_vars(Elapse)
    /\ WF_vars(\E h \in timeouts : TimerFires(h))

\* ================================================================== claims
Events(batch) == [i \in 1..Len(batch) |-> batch[i].event]
QueueEvents == [i \in 1..Len(queue) |-> queue[i].message.event]

RECURSIVE SentEvents(_)
\* the events handed to the transport, request by request in issue order
SentEvents(n) ==
    IF n = 0 THEN <<>> ELSE SentEvents(n - 1) \o Events(requests[n].batch)

Increasing(seq) == \A i, j \in 1..Len(seq) : i < j => seq[i] < seq[j]

\* track calls whose event passes validation: the calls that reach enqueue
ValidCalls == {n \in 1..nTracks : tracked[n].valid}

\* the callbacks the application has handed over with an accepted call
Supplied == {TrackCb(n) : n \in ValidCalls} \cup {FlushCb(n) : n \in 1..nFlushes}

InQueue(cb) == \E i \in 1..Len(queue) : queue[i].callback = cb
InImmediates(cb) == \E i \in 1..Len(immediates) : immediates[i] = cb
InRequest(cb, r) == \E i \in 1..Len(DoneOrder(r)) : DoneOrder(r)[i] = cb
InFlight(cb) ==
    \E i \in 1..Len(requests) :
        requests[i].state = "pending" /\ InRequest(cb, requests[i])

\* the client still owes cb its invocation
Owed(cb) == InQueue(cb) \/ InImmediates(cb) \/ InFlight(cb)

\* C1: every queued entry's callback and every flush callback is invoked
\* exactly once: while the client still holds it, not yet; once the client
\* is through with it (its request settled, its immediate run), once, also
\* when a callback raised.
C1_CallbacksExactlyOnce ==
    \A cb \in Supplied :
        IF Owed(cb) THEN cbCalls[cb] = <<>> ELSE Len(cbCalls[cb]) = 1

\* C2: on an enabled client the events reach the transport in enqueue order:
\* the events of the requests, read in issue order and within each batch by
\* index, followed by the events still queued, are in the order of the track
\* calls that enqueued them.
C2_DeliveredInEnqueueOrder ==
    enable => Increasing(SentEvents(Len(requests)) \o QueueEvents)

\* two requests in flight at once, the second a batch of two
C2_Witness ==
    /\ enable
    /\ Len(requests) >= 2
    /\ requests[1].state = "pending"
    /\ requests[2].state = "pending"
    /\ Len(requests[2].batch) = 2

\* an accepted track call is made in this step
Enqueues == tracked' # tracked /\ tracked'[Len(tracked')].valid
\* the request a step issues, when it issues one
Issues == Len(requests') = Len(requests) + 1
Issued == requests'[Len(requests')]

\* C3: the first enqueue on a fresh enabled client issues, in the same call,
\* a request carrying exactly that event, whatever flushAt and flushInterval
\* are and although no timer was armed and flushAt may not be reached.
C3_FirstEnqueueFlushes ==
    [][ (enable /\ Enqueues /\ ValidCalls = {})
        => /\ requests = <<>>
           /\ Issues
           /\ Events(Issued.batch) = <<Len(tracked')>>
           /\ Issued.state = "pending"
           /\ queue' = <<>> ]_vars

\* the first event went out alone on a client whose flushAt is the default
C3_Witness ==
    /\ enable
    /\ flushAt = DefaultFlushAt
    /\ flushInterval = DefaultFlushInterval
    /\ Cardinality(ValidCalls) = 1
    /\ Len(requests) = 1
    /\ Len(requests[1].batch) = 1
    /\ now = 0

\* C4 as stated: once flushAt events are enqueued on an enabled client and
\* flushed with no explicit flush call, some request holds exactly flushAt
\* entries.
C4_FlushAtEnqueuesGiveFullBatch ==
    (enable /\ nFlushes = 0 /\ Cardinality(ValidCalls) >= flushAt /\ queue = <<>>)
        => \E i \in 1..Len(requests) : Len(requests[i].batch) = flushAt

\* C4 amended: on an enabled client that has made its first flush, the
\* enqueue that brings the queue to flushAt entries issues in the same call
\* one request whose batch is exactly those flushAt entries in enqueue order,
\* and leaves the queue empty.
C4_EnqueueReachingFlushAtFlushes ==
    [][ (enable /\ Enqueues /\ ValidCalls # {} /\ Len(queue) + 1 = flushAt)
        => /\ Issues
           /\ Events(Issued.batch) = QueueEvents \o <<Len(tracked')>>
           /\ Len(Issued.batch) = flushAt
           /\ Issued.callback = Noop
           /\ queue' = <<>> ]_vars

\* with flushAt = 2 and no explicit flush call, the second request is a batch
\* of the two events enqueued after the first
C4_Witness ==
    /\ enable
    /\ flushAt = 2
    /\ nFlushes = 0
    /\ Len(requests) = 2
    /\ Events(requests[2].batch) = <<2, 3>>

\* the timeout this.timer names, when it is pending
PendingTimer == {h \in timeouts : h.id = timer}

\* C5: no entry waits in the queue longer than flushInterval: while the queue
\* holds an entry, the timer is pending and due no later than flushInterval
\* after the oldest entry was enqueued, and no entry is older than that.
C5_FlushWithinInterval ==
    enable =>
        /\ \A i \in 1..Len(queue) :
               now - queue[i].message.timestamp <= flushInterval
        /\ queue # <<>> =>
               \E h \in PendingTimer :
                   h.deadline <= queue[1].message.timestamp + flushInterval

\* an event below the size threshold was flushed by the timer, flushInterval
\* after it was enqueued
C5_Witness ==
    /\ enable
    /\ flushAt > 1
    /\ nFlushes = 0
    /\ Len(requests) >= 2
    /\ queue = <<>>
    /\ Len(requests[Len(requests)].batch) < flushAt
    /\ requests[Len(requests)].batch[1].timestamp + flushInterval = now

\* how often cb waits in the setImmediate queue
ImmediateCount(cb) == Cardinality({i \in 1..Len(immediates) : immediates[i] = cb})

\* cb is scheduled by setImmediate and then invoked once with no argument
CalledBackOnceNoError(cb) ==
    /\ Len(cbCalls[cb]) + ImmediateCount(cb) = 1
    /\ \A k \in 1..Len(cbCalls[cb]) :
           cbCalls[cb][k] = [err |-> NoError, data |-> NoData]

\* a disabled client issues no request, arms no timer, queues nothing, and
\* calls each callback of cbs back with no error
DisabledQuiet(cbs) ==
    /\ requests = <<>>
    /\ timeouts = {}
    /\ timer = NoTimer
    /\ queue = <<>>
    /\ \A cb \in cbs : CalledBackOnceNoError(cb)

\* an API call is made in this step and hands its callback to setImmediate
\* without invoking it
CallsBackLater(cb) ==
    /\ cbCalls' = cbCalls
    /\ immediates' = Append(immediates, cb)

\* C6 as stated: on a client constructed with enable = false every track and
\* every flush call issues no request, arms no timer, leaves the queue empty
\* and invokes the supplied callback with no error.
C6_DisabledAlwaysCallsBack ==
    ~options.enable =>
        DisabledQuiet({TrackCb(n) : n \in 1..nTracks}
                      \cup {FlushCb(n) : n \in 1..nFlushes})

\* C6 amended: on a client constructed with enable = false every track call
\* whose event passes validation and every flush call issues no request, arms
\* no timer, leaves the queue empty and invokes the supplied callback once
\* with no error, and only after the call has returned (the call hands the
\* callback to setImmediate).
C6_DisabledIsNoOp ==
    /\ [](~options.enable => DisabledQuiet(Supplied))
    /\ [][ ~options.enable =>
             /\ Enqueues => CallsBackLater(TrackCb(Len(tracked')))
             /\ nFlushes' # nFlushes => CallsBackLater(FlushCb(nFlushes')) ]_vars

\* a disabled client has called back a track call and a flush call
C6_Witness ==
    /\ ~options.enable
    /\ 1 \in ValidCalls
    /\ cbCalls[TrackCb(1)] = <<[err |-> NoError, data |-> NoData]>>
    /\ cbCalls[FlushCb(1)] = <<[err |-> NoError, data |-> NoData]>>

\* the explicit flush calls that found the queue empty: no request is theirs
EmptyFlushes ==
    {n \in 1..nFlushes :
        \A i \in 1..Len(requests) : requests[i].callback # FlushCb(n)}

\* C7: a flush call against an empty queue on an enabled client issues no
\* request, leaves the queue empty and invokes its callback exactly once with
\* no error, after the call has returned.
C7_EmptyFlushIsNoOp ==
    /\ [](enable => \A n \in EmptyFlushes : CalledBackOnceNoError(FlushCb(n)))
    /\ [][ (enable /\ nFlushes' # nFlushes /\ queue = <<>>)
           => /\ requests' = requests
              /\ queue' = <<>>
              /\ CallsBackLater(FlushCb(nFlushes')) ]_vars

\* an enabled client has called back a flush call that issued no request
C7_Witness ==
    /\ enable
    /\ EmptyFlushes = {1}
    /\ requests # <<>>
    /\ cbCalls[FlushCb(1)] = <<[err |-> NoError, data |-> NoData]>>

\* the error a failed batch's callbacks are to receive: an Error whose message
\* is the response's status text, or the transport's error itself
IsSharedError(err, failure) ==
    IF failure.response # NoResponse
    THEN err.kind = "Error" /\ err.message = failure.response.statusText
    ELSE err = [kind |-> "AxiosError", message |-> failure.message,
                code |-> failure.code]

\* C8: when a batch's request finally fails, every entry callback of the
\* batch and the flush callback receive one and the same error, the flush
\* callback with the batch; its message is the response's status text when
\* the failure carries a response, else it is the transport's error.
C8_FailedBatchSharesOneError ==
    \A i \in 1..Len(requests) :
        requests[i].state = "rejected" =>
            LET order == DoneOrder(requests[i]) IN
            \A k \in 1..Len(order) :
                order[k] # Noop =>
                    /\ Len(cbCalls[order[k]]) = 1
                    /\ IsSharedError(cbCalls[order[k]][1].err, requests[i].error)
                    /\ cbCalls[order[k]][1].data =
                           IF k = Len(order) THEN requests[i].batch ELSE NoData
                    /\ cbCalls[order[k]][1].err = cbCalls[order[1]][1].err

\* C9: when an event fails validation, track raises to its caller and the
\* client is as before: queue, has-flushed flag, timer, pending timeouts,
\* immediates and requests are unchanged and no callback is invoked; the
\* call's callback is held nowhere and is never invoked.
C9_InvalidEventLeavesNoTrace ==
    /\ [](/\ rejected = Invalid(tracked)
          /\ \A n \in Invalid(tracked) :
                 /\ ~Owed(TrackCb(n))
                 /\ cbCalls[TrackCb(n)] = <<>>
                 /\ \A i \in 1..Len(requests) : ~InRequest(TrackCb(n), requests[i]))
    /\ [][ (tracked' # tracked /\ ~tracked'[Len(tracked')].valid)
           => /\ Len(tracked') \in rejected'
              /\ UNCHANGED <<queue, flushed, timer, timeouts, nTimers,
                             immediates, requests, cbCalls>> ]_vars

\* the first track call of an enabled client raised: the client is still
\* fresh, and the next event is the one the first-enqueue flush sends
C9_Witness ==
    /\ enable
    /\ rejected = {1}
    /\ Len(requests) = 1
    /\ Events(requests[1].batch) = <<2>>

\* C10: a client constructed with flushInterval = 0 never has a timer pending.
C10_ZeroIntervalNeverArmsTimer ==
    options.flushInterval = 0 => timer = NoTimer /\ timeouts = {}

RECURSIVE SentRecords(_)
\* the records handed to the transport, request by request in issue order
SentRecords(n) ==
    IF n = 0 THEN <<>> ELSE SentRecords(n - 1) \o requests[n].batch

\* every record that entered the queue, in enqueue order: those sent, then
\* those still queued
AllRecords ==
    SentRecords(Len(requests)) \o [i \in 1..Len(queue) |-> queue[i].message]

\* the track call that enqueued the k-th record
CallOf(k) ==
    CHOOSE n \in ValidCalls : Cardinality({m \in ValidCalls : m <= n}) = k

\* C11 as stated: every record that entered the queue has a non-empty
\* messageId, different from the messageId of every other record enqueued on
\* the client, whether generated or supplied by the caller.
C11_MessageIdsUnique ==
    \A j, k \in 1..Len(AllRecords) :
        /\ Truthy(AllRecords[k].messageId)
        /\ j # k => AllRecords[j].messageId # AllRecords[k].messageId

\* C11 amended: every record that entered the queue has a non-empty
\* messageId; a non-empty id the caller supplied is kept as supplied; a
\* generated id differs from the id of every record enqueued before it, so
\* two records share an id only when the later one's was supplied by the
\* caller; and an assigned id never changes, in the queue or in a batch.
C11_MessageIdAssignedOnce ==
    /\ [](enable =>
            /\ Len(AllRecords) = Cardinality(ValidCalls)
            /\ \A k \in 1..Len(AllRecords) :
                   /\ Truthy(AllRecords[k].messageId)
                   /\ Truthy(tracked[CallOf(k)].messageId) =>
                          AllRecords[k].messageId = tracked[CallOf(k)].messageId
                   /\ \A j \in 1..(k - 1) :
                          AllRecords[j].messageId = AllRecords[k].messageId =>
                              Truthy(tracked[CallOf(k)].messageId))
    /\ [][ \A k \in 1..Len(AllRecords) :
               /\ k <= Len(AllRecords')
               /\ AllRecords'[k].messageId = AllRecords[k].messageId ]_vars

\* three records of equal content enqueued at the same time, one with no id,
\* one with an empty id and one with the caller's id, all of them sent
C11_Witness ==
    /\ Len(AllRecords) = 3
    /\ Len(requests) = 2
    /\ queue = <<>>
    /\ now = 0
    /\ \E i, j, k \in 1..3 :
           /\ tracked[i].messageId = Undefined
           /\ tracked[j].messageId = Str("")
           /\ tracked[k].messageId = Str("m1")
           /\ AllRecords[k].messageId = Str("m1")
           /\ AllRecords[i].messageId # AllRecords[j].messageId

\* a field of a record is text, and is the caller's value when that was text
\* and its JSON serialization when it was not
TextOf(field, original) ==
    /\ IsString(field)
    /\ field = IF IsString(original) THEN original ELSE JsonStringify(original)

\* C12: in every record of the queue or of a batch, anonymousId and userId,
\* when the caller passed them, are text: a value that was not text, falsy
\* ones such as the number 0 included, has been replaced by its JSON
\* serialization.
C12_IdentityFieldsAreText ==
    enable =>
        \A k \in 1..Len(AllRecords) :
            /\ tracked[CallOf(k)].anonymousId # Undefined =>
                   TextOf(AllRecords[k].anonymousId, tracked[CallOf(k)].anonymousId)
            /\ tracked[CallOf(k)].userId # Undefined =>
                   TextOf(AllRecords[k].userId, tracked[CallOf(k)].userId)

\* the n-th track call is made in this step
TrackStep(n) == Len(tracked) = n - 1 /\ Len(tracked') = n

\* a step that runs flush: the timer firing, a flush call, or an enqueue
\* that reaches flushAt
TriggerStep ==
    \/ /\ tracked' = tracked
       /\ nFlushes' = nFlushes
       /\ \E h \in timeouts : h.deadline <= now /\ h \notin timeouts'
    \/ nFlushes' # nFlushes
    \/ Enqueues /\ Len(queue) + 1 >= flushAt

\* the batches of the requests issued so far
Batches == [i \in 1..Len(requests) |-> Events(requests[i].batch)]

\* C13: on a fresh enabled client with flushAt = 2, track(A) issues a request
\* with batch [A] in the call; track(B) issues none; track(C), made while B
\* is still queued, issues exactly one request, with batch [B, C]; track(D)
\* after that issues no request, and D stays queued until a trigger (the
\* timer, the size threshold, a flush call) takes it into a batch.
C13_FlushAtTwoScenario ==
    [][ /\ TrackStep(1) =>
              /\ Issues
              /\ Batches' = <<<<1>>>>
              /\ queue' = <<>>
        /\ (TrackStep(2) /\ Batches = <<<<1>>>>) =>
              /\ requests' = requests
              /\ immediates' = immediates
              /\ QueueEvents' = <<2>>
        /\ (TrackStep(3) /\ Batches = <<<<1>>>> /\ QueueEvents = <<2>>) =>
              /\ Batches' = <<<<1>>, <<2, 3>>>>
              /\ immediates' = immediates
              /\ queue' = <<>>
        /\ (TrackStep(4) /\ Batches = <<<<1>>, <<2, 3>>>>) =>
              /\ requests' = requests
              /\ QueueEvents' = <<4>>
        /\ (QueueEvents = <<4>> /\ QueueEvents' # <<4>>) =>
              /\ TriggerStep
              /\ Issues
              /\ Issued.batch[1].event = 4 ]_vars

\* A, B, C and D were tracked back-to-back: [A] and [B, C] went out, D waits
\* with the timer pending
C13_Witness ==
    /\ flushAt = 2
    /\ nTracks = 4
    /\ nFlushes = 0
    /\ now = 0
    /\ Batches = <<<<1>>, <<2, 3>>>>
    /\ QueueEvents = <<4>>
    /\ timer # NoTimer

\* the response's status is one the classifier retries
RetriedStatus(err) ==
    /\ err.response # NoResponse
    /\ err.response.status \in (500..599) \cup {429}

\* a failure without a response that carries a transport error code
NetworkLevelFailure(err) == err.response = NoResponse /\ err.code # ""

\* retryable, as the claim has it
ClaimedRetryable(err) == NetworkLevelFailure(err) \/ RetriedStatus(err)

\* retryable, as amended: among the failures without a response, those
\* whose code is neither ECONNABORTED nor one the retry layer denies
AmendedRetryable(err) ==
    \/ /\ NetworkLevelFailure(err)
       /\ err.code \notin {"ECONNABORTED"} \cup DeniedCodes
    \/ RetriedStatus(err)

\* request r's failure err is surfaced in this step: its promise is rejected
\* and each of its callbacks is invoked with the error made of err
Surfaced(i, err) ==
    /\ requests'[i].state = "rejected"
    /\ \A k \in 1..Len(DoneOrder(requests[i])) :
           LET cb == DoneOrder(requests[i])[k] IN
           cb # Noop =>
               /\ Len(cbCalls'[cb]) = Len(cbCalls[cb]) + 1
               /\ cbCalls'[cb][Len(cbCalls'[cb])].err = DeliveredError(err)

\* request r's failed attempt is retried in this step: nothing is surfaced
Retried(i) ==
    /\ requests'[i].state = "pending"
    /\ requests'[i].retryCount = requests[i].retryCount + 1
    /\ cbCalls' = cbCalls

\* Every failed attempt is retried while retries are left exactly when
\* Retryable holds of its error, and is surfaced at once when it does not.
AttemptsFollow(Retryable(_)) ==
    \A i \in Pending :
        (nFailures' = nFailures + 1 /\ requests'[i] # requests[i]) =>
            IF Retryable(requests'[i].error)
            THEN IF requests[i].retryCount < retries
                 THEN Retried(i)
                 ELSE Surfaced(i, requests'[i].error)
            ELSE Surfaced(i, requests'[i].error)

Holders(n) ==
    Cardinality({i \in 1..Len(queue) : queue[i].callback = TrackCb(n)})
    + Cardinality({<<i, k>> \in (1..Len(requests)) \X (1..MaxCalls) :
                      /\ k <= Len(requests[i].callbacks)
                      /\ requests[i].callbacks[k] = TrackCb(n)})

\* a request's delivery fails for good in this step
Rejects(i) == requests[i].state = "pending" /\ requests'[i].state = "rejected"

\* C15: a flush takes its entries out of the queue as it issues the request
\* and they never come back: an entry is in the queue or in one batch, never
\* in two places; a batch, once issued, never changes, whatever is enqueued
\* or flushed meanwhile; and a failed delivery leaves the queue as it is, so
\* the failed entries are not queued again and go into no later request.
C15_FlushedEntriesNeverReturn ==
    /\ [](enable => \A n \in ValidCalls : Holders(n) = 1)
    /\ [][ /\ Len(requests') >= Len(requests)
           /\ \A i \in 1..Len(requests) :
                  /\ requests'[i].batch = requests[i].batch
                  /\ requests'[i].callbacks = requests[i].callbacks
                  /\ Rejects(i) => queue' = queue /\ Len(requests') = Len(requests)
         ]_vars

\* a delivery has failed while another request is in flight and an entry
\* enqueued since waits in the queue
C15_Witness ==
    /\ queue # <<>>
    /\ \E i, j \in 1..Len(requests) :
           /\ requests[i].state = "rejected"
           /\ requests[j].state = "pending"

\* the events of the queue as the flush of this step finds it: with the
\* entry of the step's track call at its end
FlushedQueue ==
    IF Enqueues THEN QueueEvents \o <<Len(tracked')>> ELSE QueueEvents

\* C16: every request carries between 1 and flushAt entries, and they are
\* the front of the queue in queue order; when the queue held more than
\* flushAt entries, those beyond the first flushAt stay queued in their
\* order, and a later flush takes them from the front in turn.
C16_BatchIsFrontOfQueue ==
    /\ [](\A i \in 1..Len(requests) :
              Len(requests[i].batch) \in 1..flushAt)
    /\ [][ Issues =>
             LET q == FlushedQueue
                 n == IF Len(q) < flushAt THEN Len(q) ELSE flushAt
             IN  /\ Len(requests') = Len(requests) + 1
                 /\ Events(Issued.batch) = [k \in 1..n |-> q[k]]
                 /\ QueueEvents' = [k \in 1..(Len(q) - n) |-> q[n + k]] ]_vars

\* a queue of three with flushAt 2 went out as [1, 2], then [3]
C16_Witness ==
    /\ flushAt = 2
    /\ nTracks = 3
    /\ Batches = <<<<1, 2>>, <<3>>>>
    /\ queue = <<>>

\* flush runs in this step on an enabled client: by a trigger, or by the
\* first enqueue
FlushStep == enable /\ (TriggerStep \/ (Enqueues /\ ValidCalls = {}))

\* a timer is armed in this step
Arms == nTimers' # nTimers

\* C17: every flush, whatever caused it, clears the pending timer (a timeout
\* pending before the flush is pending no more, and this.timer is null or a
\* handle armed after the flush in the same call); only an enqueue arms a
\* timer, and only when none is pending; so at most one timeout is pending,
\* and it is the one this.timer names.
C17_AtMostOneTimerPending ==
    /\ [](/\ Cardinality(timeouts) <= 1
          /\ timeouts = PendingTimer)
    /\ [][ /\ FlushStep =>
                /\ timeouts' \cap timeouts = {}
                /\ timer' = NoTimer \/ (Arms /\ timer' = nTimers')
           /\ Arms =>
                /\ Enqueues
                /\ nTimers' = nTimers + 1
                /\ timer = NoTimer \/ FlushStep
                /\ timeouts' = {h \in timeouts' : h.id = nTimers'} ]_vars

\* a flush has cleared the first timer and the enqueue armed a second one,
\* the only one pending
C17_Witness ==
    /\ nTimers = 2
    /\ timer = 2
    /\ Cardinality(timeouts) = 1

\* how often flush runs in this step: each run issues a request or, finding
\* the queue empty, hands its callback to setImmediate
FlushRuns ==
    (Len(requests') - Len(requests)) + (Len(immediates') - Len(immediates))

\* C18: one enqueue on an enabled client runs flush at most once, and so
\* issues at most one request, also when it is the first enqueue and the
\* queue reaches flushAt in the same call (flushAt = 1): then it runs flush
\* exactly once.
C18_OneFlushPerEnqueue ==
    [][ (enable /\ Enqueues) =>
            /\ FlushRuns \in {0, 1}
            /\ Len(requests') - Len(requests) \in {0, 1}
            /\ immediates' = immediates
            /\ (ValidCalls = {} \/ Len(queue) + 1 >= flushAt) => Issues ]_vars

\* the first enqueue of a client with flushAt 1 issued one request and
\* nothing else
C18_Witness ==
    /\ enable
    /\ flushAt = 1
    /\ nTracks = 1
    /\ nFlushes = 0
    /\ Len(requests) = 1
    /\ queue = <<>>
    /\ immediates = <<>>

\* C19: on an enabled client, between handlers, the queue holds fewer than
\* flushAt entries, whatever track calls, flush calls and timer firings came
\* before; so every flush leaves the queue empty.
C19_QueueBelowFlushAt ==
    /\ [](enable => Len(queue) < flushAt)
    /\ [][ FlushStep => queue' = <<>> ]_vars

\* two entries wait below a flushAt of 20 after the first went out alone
C19_Witness ==
    /\ enable
    /\ flushAt = DefaultFlushAt
    /\ Len(queue) = 2
    /\ Len(requests) = 1

\* the entry of track call n has been handed to the transport in a batch
Sent(n) == \E i \in 1..Len(requests) : InRequest(TrackCb(n), requests[i])

\* C20: on an enabled client with no flush call made, given that a pending
\* timer fires in the end, every entry enqueued is eventually handed to the
\* transport in a batch; no entry waits in the queue with no timer pending.
C20_EveryEntryIsEventuallySent ==
    /\ [](queue # <<>> => PendingTimer # {})
    /\ \A n \in 1..MaxCalls : (n \in ValidCalls) ~> Sent(n)

\* with the default interval, an entry below flushAt went out when its timer
\* fired, 10000 after it was enqueued
C20_Witness ==
    /\ flushInterval = DefaultFlushInterval
    /\ flushAt = DefaultFlushAt
    /\ now = DefaultFlushInterval
    /\ Len(requests) = 2
    /\ Events(requests[2].batch) = <<2, 3>>
    /\ queue = <<>>

====
